---------------------------- MODULE Spec2Model ----------------------------
(***************************************************************************)
(* Floor-plan composer: the calibration editor (ImageEditor.vue), the      *)
(* paste dialog (AddImageHandler.vue, first script block) and the scene    *)
(* composer (AddImageHandler.vue, second script block).                    *)
(*                                                                         *)
(* JavaScript numbers are modelled as exact extended rationals: a record   *)
(* [n, d] in lowest terms with d > 0, or d = 0 for the non-finite values   *)
(* (1/0 = Infinity, -1/0 = -Infinity, 0/0 = NaN).  Rounding of IEEE        *)
(* doubles and the sign of zero are not modelled.                          *)
(*                                                                         *)
(* An optional value (T | undefined, T | null) is a sequence of length at  *)
(* most one: << >> is undefined/null, <<v>> is the value v.                *)
(***************************************************************************)
EXTENDS Integers, Sequences, FiniteSets, TLC

(***************************************************************************)
(* Numbers                                                                 *)
(***************************************************************************)
AbsI(i) == IF i < 0 THEN -i ELSE i

SignI(i) == IF i < 0 THEN -1 ELSE IF i > 0 THEN 1 ELSE 0

RECURSIVE GCD(_, _)
GCD(a, b) == IF b = 0 THEN a ELSE GCD(b, a % b)

\* n/d in lowest terms, the sign carried by n; x/0 is +-Infinity, 0/0 is NaN
Mk(n, d) ==
    IF d = 0 THEN [n |-> SignI(n), d |-> 0]
    ELSE LET g == GCD(AbsI(n), AbsI(d))
         IN  [n |-> (SignI(d) * n) \div g, d |-> AbsI(d) \div g]

Q(i) == [n |-> i, d |-> 1]

NaN == [n |-> 0, d |-> 0]

Infinity == [n |-> 1, d |-> 0]

IsNaN(a) == a.d = 0 /\ a.n = 0

IsFinite(a) == a.d # 0

Neg(a) == [n |-> -a.n, d |-> a.d]

\* a + b
Add(a, b) ==
    IF IsNaN(a) \/ IsNaN(b) THEN NaN
    ELSE IF a.d = 0 /\ b.d = 0 THEN (IF a.n = b.n THEN a ELSE NaN)
    ELSE IF a.d = 0 THEN a
    ELSE IF b.d = 0 THEN b
    ELSE Mk(a.n * b.d + b.n * a.d, a.d * b.d)

\* a - b
Sub(a, b) == Add(a, Neg(b))

\* a * b
Mul(a, b) == Mk(a.n * b.n, a.d * b.d)

\* 1 / a
Recip(a) == Mk(a.d, a.n)

\* a / b
Div(a, b) == Mul(a, Recip(b))

\* a < b (false when either is NaN)
Lt(a, b) ==
    /\ ~IsNaN(a)
    /\ ~IsNaN(b)
    /\ IF a.d = 0 /\ b.d = 0 THEN a.n < b.n ELSE a.n * b.d < b.n * a.d

\* a <= b (false when either is NaN)
Le(a, b) ==
    /\ ~IsNaN(a)
    /\ ~IsNaN(b)
    /\ IF a.d = 0 /\ b.d = 0 THEN a.n <= b.n ELSE a.n * b.d <= b.n * a.d

\* Math.min(a, b)
MathMin(a, b) ==
    IF IsNaN(a) \/ IsNaN(b) THEN NaN ELSE IF Le(a, b) THEN a ELSE b

\* Math.max(a, b)
MathMax(a, b) ==
    IF IsNaN(a) \/ IsNaN(b) THEN NaN ELSE IF Le(a, b) THEN b ELSE a

\* Math.abs(a)
MathAbs(a) == [n |-> AbsI(a.n), d |-> a.d]

\* the integer r >= 0 with r * r = k, searched in lo..hi; the inputs of the
\* model keep every square root taken rational
RECURSIVE IRoot(_, _, _)
IRoot(k, lo, hi) ==
    IF lo >= hi THEN CHOOSE r \in {lo} : r * r = k
    ELSE LET mid == (lo + hi) \div 2
         IN  IF mid * mid >= k THEN IRoot(k, lo, mid) ELSE IRoot(k, mid + 1, hi)

\* Math.sqrt(a)
MathSqrt(a) ==
    IF IsNaN(a) \/ a.n < 0 THEN NaN
    ELSE IF a.d = 0 THEN Infinity
    ELSE LET top(k) == IF k < 46340 THEN k ELSE 46340
         IN  [n |-> IRoot(a.n, 0, top(a.n)), d |-> IRoot(a.d, 0, top(a.d))]

None == << >>

Some(v) == <<v>>


(***************************************************************************)
(* Program constants                                                       *)
(***************************************************************************)
CANVAS_WIDTH == 1200

CANVAS_HEIGHT == 700

CROP_HANDLE_TOLERANCE == 10

\* the inset of the initial crop rectangle from the image's edges
INITIAL_CROP_INSET == 20

\* the initial zoom of the composer's camera
INITIAL_PIXELS_PER_METER == 50

(***************************************************************************)
(* Decoded images: the data URL stands for the image, and decoding it      *)
(* gives an HTMLImageElement with these natural dimensions.                *)
(***************************************************************************)
ImageSize ==
    [ wide |-> [width |-> 200, height |-> 100],
      small |-> [width |-> 120, height |-> 70],
      sheet |-> [width |-> 1240, height |-> 740] ]

Sources == DOMAIN ImageSize

VARIABLES
    \* AddImageHandler.vue, the paste dialog
    dialogOpen,        \* the <dialog> is shown (showModal / close)
    image,             \* ref<HTMLImageElement | null>: the editor is mounted iff set
    pasteLoading,      \* the data URL a FileReader / Image is still loading, if any
    \* ImageEditor.vue, one instance per mounted editor
    renderableImage,   \* the record being calibrated: a reference into heap
    state,             \* CropState | ScaleState
    mouseLocation,     \* Coordinate | undefined
    shiftPressed,
    cursorClass,       \* the canvas' class list, or null
    \* the scene composer
    heap,              \* the RenderableImage objects, by reference
    images,            \* RenderableImage[]: references, index 1 is the front
    selectedImage,     \* a reference or null
    canvasPixelsPerMeter,
    renderOrigin,
    loadFinished,
    imageDragState,
    canvasDragState,
    mousePos,
    localStorage,      \* the value stored under SAVE_KEY, or null
    loading,           \* loadState suspended at its await: the parsed state and
                       \* the indices whose image has decoded, if any
    nextId             \* generateId's counter

dialogVars == <<dialogOpen, image, pasteLoading>>

editorVars == <<renderableImage, state, mouseLocation, shiftPressed, cursorClass>>

cameraVars == <<canvasPixelsPerMeter, renderOrigin>>

gestureVars == <<imageDragState, canvasDragState, mousePos>>

composerVars ==
    <<heap, images, selectedImage, cameraVars, loadFinished, gestureVars,
      localStorage, loading>>

vars == <<dialogVars, editorVars, composerVars, nextId>>

(***************************************************************************)
(* Persistence: saveState                                                  *)
(***************************************************************************)
\* JSON.stringify writes a non-finite number as null; null is kept apart from
\* every number by its denominator
JsonNull == [n |-> 0, d |-> 0 - 1]

JsonNumber(a) == IF a.d > 0 THEN a ELSE JsonNull

\* a number read where arithmetic is done: null counts as 0
ToNumber(a) == IF a = JsonNull THEN Q(0) ELSE a

\* { ...img, image: img.image.src } through JSON.stringify: a label that is
\* undefined is left out, which reads back as undefined
SavedImage(img) ==
    [ image           |-> img.image,
      x               |-> JsonNumber(img.x),
      y               |-> JsonNumber(img.y),
      cropOffsetX     |-> JsonNumber(img.cropOffsetX),
      cropOffsetY     |-> JsonNumber(img.cropOffsetY),
      cropWidth       |-> JsonNumber(img.cropWidth),
      cropHeight      |-> JsonNumber(img.cropHeight),
      pixelsPerMetre  |-> JsonNumber(img.pixelsPerMetre),
      label           |-> img.label,
      id              |-> img.id,
      rotationDegrees |-> img.rotationDegrees,
      opacity         |-> JsonNumber(img.opacity) ]

\* images.map(...) of saveState, over the sequence imgs of references into h
Serialize(imgs, h) == [i \in 1..Len(imgs) |-> SavedImage(h[imgs[i]])]

\* saveState(), run on the sequence imgs and the objects h: the stored value
\* (the load-finished test only logs a warning)
saveState(imgs, h) == Some(Serialize(imgs, h))

\* addImageCallback with images.push(image): the new image goes to the rear
addImageCallbackPushes(ref, h) ==
    /\ images' = images \o <<ref>>
    /\ localStorage' = saveState(images \o <<ref>>, h)

\* addImageCallback(image): images.unshift(image); saveState(); render()
addImageCallback(ref, h) ==
    /\ images' = <<ref>> \o images
    /\ localStorage' = saveState(<<ref>> \o images, h)

\* addImage(renderableImage) of the paste dialog: dialog.close(), then the
\* callback prop, which is the composer's addImageCallback
addImage(ref, h) ==
    /\ dialogOpen' = FALSE
    /\ addImageCallback(ref, h)

(***************************************************************************)
(* ImageEditor.vue                                                         *)
(***************************************************************************)
Coordinate(sys, cx, cy) == [system |-> sys, x |-> cx, y |-> cy]

\* the ImageEditor's setup for the decoded image src: renderableImage
NewRenderableImage(src, id) ==
    [ image           |-> src,
      x               |-> Q(0),
      y               |-> Q(0),
      cropOffsetX     |-> Q(0),
      cropOffsetY     |-> Q(0),
      cropWidth       |-> Q(ImageSize[src].width),
      cropHeight      |-> Q(ImageSize[src].height),
      pixelsPerMetre  |-> Q(0),
      label           |-> None,
      id              |-> id,
      rotationDegrees |-> 0,
      opacity         |-> Q(1) ]

\* the ImageEditor's setup for the decoded image src: state
InitialState(src) ==
    [ stage  |-> "crop",
      xMin   |-> Q(INITIAL_CROP_INSET),
      xMax   |-> Q(ImageSize[src].width - INITIAL_CROP_INSET),
      yMin   |-> Q(INITIAL_CROP_INSET),
      yMax   |-> Q(ImageSize[src].height - INITIAL_CROP_INSET),
      currentCropHandles |-> << >> ]

\* the state of an editor that is not mounted
NoState == [stage |-> "unmounted"]

saveDisabled ==
    \/ state.stage # "scale"
    \/ state.start = None
    \/ state.end = None
    \/ state.length = None

imageToCanvasScaleFactor ==
    MathMin(Div(Q(CANVAS_WIDTH), heap[renderableImage].cropWidth),
            Div(Q(CANVAS_HEIGHT), heap[renderableImage].cropHeight))

\* snapLine with the comparison Math.abs(dx) >= Math.abs(dy): a cursor as far
\* across as down is snapped to the horizontal
snapLineTiesHorizontal(start, cursor) ==
    IF shiftPressed \/ start = None THEN cursor
    ELSE IF start[1].system # cursor.system THEN cursor
    ELSE LET dx == Sub(cursor.x, start[1].x)
             dy == Sub(cursor.y, start[1].y)
         IN  IF Le(MathAbs(dy), MathAbs(dx))
             THEN Coordinate(cursor.system, cursor.x, start[1].y)
             ELSE Coordinate(cursor.system, start[1].x, cursor.y)

\* snapLine(start, cursor), start being optional
snapLine(start, cursor) ==
    IF shiftPressed \/ start = None THEN cursor
    ELSE IF start[1].system # cursor.system THEN cursor
    ELSE LET dx == Sub(cursor.x, start[1].x)
             dy == Sub(cursor.y, start[1].y)
         IN  IF Lt(MathAbs(dy), MathAbs(dx))
             THEN Coordinate(cursor.system, cursor.x, start[1].y)
             ELSE Coordinate(cursor.system, start[1].x, cursor.y)

\* Array.prototype.includes
Includes(seq, v) == \E i \in 1..Len(seq) : seq[i] = v

\* findUsableCropHandles without the !handles.includes(...) tests: a pointer
\* near both edges of an axis is offered both handles
findUsableCropHandlesOfferingAll(loc) ==
    IF loc = None \/ state.stage # "crop" THEN << >>
    ELSE LET f == imageToCanvasScaleFactor
             near(m, bound) ==
                 Lt(MathAbs(Sub(m, Mul(bound, f))), Q(CROP_HANDLE_TOLERANCE))
             h1 == IF near(loc[1].x, state.xMin) THEN <<"xMin">> ELSE << >>
             h2 == IF near(loc[1].x, state.xMax) THEN Append(h1, "xMax") ELSE h1
             h3 == IF near(loc[1].y, state.yMin) THEN Append(h2, "yMin") ELSE h2
             h4 == IF near(loc[1].y, state.yMax) THEN Append(h3, "yMax") ELSE h3
         IN  h4

\* findUsableCropHandles(), for the mouse location loc (optional)
findUsableCropHandles(loc) ==
    IF loc = None \/ state.stage # "crop" THEN << >>
    ELSE LET f == imageToCanvasScaleFactor
             near(m, bound) ==
                 Lt(MathAbs(Sub(m, Mul(bound, f))), Q(CROP_HANDLE_TOLERANCE))
             h1 == IF near(loc[1].x, state.xMin) THEN <<"xMin">> ELSE << >>
             h2 == IF near(loc[1].x, state.xMax) /\ ~Includes(h1, "xMin")
                   THEN Append(h1, "xMax") ELSE h1
             h3 == IF near(loc[1].y, state.yMin) THEN Append(h2, "yMin") ELSE h2
             h4 == IF near(loc[1].y, state.yMax) /\ ~Includes(h3, "yMin")
                   THEN Append(h3, "yMax") ELSE h3
         IN  h4

\* updateCropCursor(handles): the class list "cropping-<handle> ..."
updateCropCursor(handles) == Some(handles)

\* the crop branch of handleMouseMove while handles are held: the four
\* assignments in the order of the code, each reading the state as the
\* assignments before it left it
DragCrop(s, loc) ==
    LET f  == imageToCanvasScaleFactor
        s1 == IF Includes(s.currentCropHandles, "xMin")
              THEN [s  EXCEPT !.xMin = MathMin(Div(loc.x, f), s.xMax)] ELSE s
        s2 == IF Includes(s.currentCropHandles, "xMax")
              THEN [s1 EXCEPT !.xMax = MathMax(Div(loc.x, f), s1.yMin)] ELSE s1
        s3 == IF Includes(s.currentCropHandles, "yMin")
              THEN [s2 EXCEPT !.yMin = MathMin(Div(loc.y, f), s2.xMax)] ELSE s2
        s4 == IF Includes(s.currentCropHandles, "yMax")
              THEN [s3 EXCEPT !.yMax = MathMax(Div(loc.y, f), s3.yMin)] ELSE s3
    IN  s4

\* handleMouseMove(e) of the editor; (cx, cy) is the pointer relative to the
\* canvas, e.clientX - boundingRect.left and e.clientY - boundingRect.top
editorHandleMouseMove(cx, cy) ==
    LET loc == Coordinate("canvas", Q(cx), Q(cy))
    IN  /\ mouseLocation' = Some(loc)
        /\ IF state.stage = "crop"
           THEN IF Len(state.currentCropHandles) # 0
                THEN /\ state' = DragCrop(state, loc)
                     /\ UNCHANGED cursorClass
                ELSE /\ cursorClass' = updateCropCursor(findUsableCropHandles(Some(loc)))
                     /\ UNCHANGED state
           ELSE UNCHANGED <<state, cursorClass>>
        /\ UNCHANGED <<renderableImage, shiftPressed, dialogVars, composerVars, nextId>>

\* handleMouseDown() of the editor
editorHandleMouseDown ==
    /\ IF state.stage = "crop" /\ mouseLocation # None
          /\ Len(findUsableCropHandles(mouseLocation)) # 0
       THEN /\ state' = [state EXCEPT
                           !.currentCropHandles = findUsableCropHandles(mouseLocation)]
            /\ cursorClass' = updateCropCursor(findUsableCropHandles(mouseLocation))
       ELSE UNCHANGED <<state, cursorClass>>
    /\ UNCHANGED <<renderableImage, mouseLocation, shiftPressed, dialogVars,
                   composerVars, nextId>>

\* handleMouseUp() of the editor
editorHandleMouseUp ==
    /\ IF state.stage = "crop"
       THEN /\ state' = [state EXCEPT !.currentCropHandles = << >>]
            /\ cursorClass' = updateCropCursor(<< >>)
       ELSE UNCHANGED <<state, cursorClass>>
    /\ UNCHANGED <<renderableImage, mouseLocation, shiftPressed, dialogVars,
                   composerVars, nextId>>

\* handleMouseClick(e); (cx, cy) is the click relative to the canvas
handleMouseClick(cx, cy) ==
    /\ IF state.stage = "scale"
       THEN LET f == imageToCanvasScaleFactor
                snappedImagePosition ==
                    snapLine(state.start,
                             Coordinate("image", Div(Q(cx), f), Div(Q(cy), f)))
            IN  IF state.start = None \/ state.end # None
                THEN state' = [state EXCEPT !.start = Some(snappedImagePosition),
                                            !.end = None]
                ELSE state' = [state EXCEPT !.end = Some(snappedImagePosition)]
       ELSE UNCHANGED state
    /\ UNCHANGED <<renderableImage, mouseLocation, shiftPressed, cursorClass,
                   dialogVars, composerVars, nextId>>

\* handleMouseLeave()
handleMouseLeave ==
    /\ mouseLocation' = None
    /\ UNCHANGED <<renderableImage, state, shiftPressed, cursorClass, dialogVars,
                   composerVars, nextId>>

\* the measurement taken between the points of the canvas instead of the
\* points of the image: the line's length is multiplied by the scale factor
MeasuredInCanvasPixels(s) ==
    LET f == imageToCanvasScaleFactor
        xDist == Mul(Sub(s.end[1].x, s.start[1].x), f)
        yDist == Mul(Sub(s.end[1].y, s.start[1].y), f)
    IN  Div(MathSqrt(Add(Mul(xDist, xDist), Mul(yDist, yDist))), s.length[1])

\* the pixelsPerMetre handleSave computes from the scale state s
MeasuredPixelsPerMetre(s) ==
    LET xDist == Sub(s.end[1].x, s.start[1].x)
        yDist == Sub(s.end[1].y, s.start[1].y)
    IN  Div(MathSqrt(Add(Mul(xDist, xDist), Mul(yDist, yDist))), s.length[1])

\* the two early returns of handleSave
SaveRefused ==
    \/ state.stage # "scale"
    \/ state.start = None \/ state.end = None \/ state.length = None

\* handleSave without its early returns' effect: an unfinished calibration
\* is handed to onSave as it is, unmeasured
handleSaveAlways ==
    LET h == IF SaveRefused THEN heap
             ELSE [heap EXCEPT ![renderableImage].pixelsPerMetre =
                                   MeasuredPixelsPerMetre(state)]
    IN  /\ heap' = h
        /\ addImage(renderableImage, h)
        /\ UNCHANGED <<image, pasteLoading, editorVars, selectedImage,
                       cameraVars, loadFinished, gestureVars, loading, nextId>>

\* handleSave(); props.onSave is addImage of the paste dialog
handleSave ==
    IF SaveRefused
    THEN UNCHANGED vars
    ELSE LET h == [heap EXCEPT ![renderableImage].pixelsPerMetre =
                                   MeasuredPixelsPerMetre(state)]
         IN  /\ heap' = h
             /\ addImage(renderableImage, h)
             /\ UNCHANGED <<image, pasteLoading, editorVars, selectedImage,
                            cameraVars, loadFinished, gestureVars, loading, nextId>>

\* the watchEffect: in the scale stage the cursor is the crosshair
CursorEffect(s, cls) == IF s.stage = "scale" THEN Some(<<"cursor-crosshair">>) ELSE cls

\* handleNext as a toggle: from the scale stage it goes back to cropping
handleNextToggles ==
    IF state.stage = "crop"
    THEN LET s == [stage |-> "scale", start |-> None, end |-> None, length |-> None]
         IN  /\ heap' = [heap EXCEPT
                    ![renderableImage].cropOffsetX = state.xMin,
                    ![renderableImage].cropOffsetY = state.yMin,
                    ![renderableImage].cropWidth   = Sub(state.xMax, state.xMin),
                    ![renderableImage].cropHeight  = Sub(state.yMax, state.yMin)]
             /\ state' = s
             /\ cursorClass' = CursorEffect(s, cursorClass)
             /\ UNCHANGED <<renderableImage, mouseLocation, shiftPressed, dialogVars,
                            images, selectedImage, cameraVars, loadFinished,
                            gestureVars, localStorage, loading, nextId>>
    ELSE /\ state' = InitialState(image[1])
         /\ cursorClass' = None
         /\ UNCHANGED <<renderableImage, mouseLocation, shiftPressed, dialogVars,
                        composerVars, nextId>>

\* handleNext committing the far corner as the crop's size: cropWidth = xMax
\* and cropHeight = yMax
handleNextCommitsCorner ==
    IF state.stage = "crop"
    THEN LET s == [stage |-> "scale", start |-> None, end |-> None, length |-> None]
         IN  /\ heap' = [heap EXCEPT
                    ![renderableImage].cropOffsetX = state.xMin,
                    ![renderableImage].cropOffsetY = state.yMin,
                    ![renderableImage].cropWidth   = state.xMax,
                    ![renderableImage].cropHeight  = state.yMax]
             /\ state' = s
             /\ cursorClass' = CursorEffect(s, cursorClass)
             /\ UNCHANGED <<renderableImage, mouseLocation, shiftPressed, dialogVars,
                            images, selectedImage, cameraVars, loadFinished,
                            gestureVars, localStorage, loading, nextId>>
    ELSE UNCHANGED vars

\* handleNext()
handleNext ==
    IF state.stage = "crop"
    THEN LET s == [stage |-> "scale", start |-> None, end |-> None, length |-> None]
         IN  /\ heap' = [heap EXCEPT
                    ![renderableImage].cropOffsetX = state.xMin,
                    ![renderableImage].cropOffsetY = state.yMin,
                    ![renderableImage].cropWidth   = Sub(state.xMax, state.xMin),
                    ![renderableImage].cropHeight  = Sub(state.yMax, state.yMin)]
             /\ state' = s
             /\ cursorClass' = CursorEffect(s, cursorClass)
             /\ UNCHANGED <<renderableImage, mouseLocation, shiftPressed, dialogVars,
                            images, selectedImage, cameraVars, loadFinished,
                            gestureVars, localStorage, loading, nextId>>
    ELSE UNCHANGED vars

IsShift(code) == code = "ShiftLeft" \/ code = "ShiftRight"

\* handleKeyDown(e)
handleKeyDown(code) ==
    /\ shiftPressed' = IF IsShift(code) THEN TRUE ELSE shiftPressed
    /\ UNCHANGED <<renderableImage, state, mouseLocation, cursorClass, dialogVars,
                   composerVars, nextId>>

\* handleKeyUp(e)
handleKeyUp(code) ==
    /\ shiftPressed' = IF IsShift(code) THEN FALSE ELSE shiftPressed
    /\ UNCHANGED <<renderableImage, state, mouseLocation, cursorClass, dialogVars,
                   composerVars, nextId>>

\* handleLengthInputChange(e); len is the input's valueAsNumber
handleLengthInputChange(len) ==
    /\ IF state.stage = "scale"
       THEN state' = [state EXCEPT !.length = Some(len)]
       ELSE UNCHANGED state
    /\ UNCHANGED <<renderableImage, mouseLocation, shiftPressed, cursorClass,
                   dialogVars, composerVars, nextId>>

(***************************************************************************)
(* AddImageHandler.vue, the paste dialog                                   *)
(***************************************************************************)
\* handlePaste(event); item is the first file item of the clipboard, if any:
\* the editor is unmounted, the dialog shown and the file's load started
handlePaste(item) ==
    IF item = None
    THEN UNCHANGED vars
    ELSE /\ image' = None
         /\ dialogOpen' = TRUE
         /\ pasteLoading' = item
         /\ state' = NoState
         /\ mouseLocation' = None
         /\ shiftPressed' = FALSE
         /\ cursorClass' = None
         /\ UNCHANGED <<renderableImage, composerVars, nextId>>

\* img.onload of handlePaste: image.value = img mounts an ImageEditor, whose
\* setup builds renderableImage (with generateId()) and the crop state
PasteImageLoaded ==
    /\ pasteLoading # None
    /\ image' = pasteLoading
    /\ pasteLoading' = None
    /\ heap' = Append(heap, NewRenderableImage(pasteLoading[1], nextId))
    /\ renderableImage' = Len(heap) + 1
    /\ nextId' = nextId + 1
    /\ state' = InitialState(pasteLoading[1])
    /\ mouseLocation' = None
    /\ shiftPressed' = FALSE
    /\ cursorClass' = None
    /\ UNCHANGED <<dialogOpen, images, selectedImage, cameraVars, loadFinished,
                   gestureVars, localStorage, loading>>

\* cancelAdd wired like addImage: the dialog closes and the image under
\* calibration is handed to the composer
cancelAddSaves ==
    /\ addImage(renderableImage, heap)
    /\ UNCHANGED <<image, pasteLoading, editorVars, heap, selectedImage,
                   cameraVars, loadFinished, gestureVars, loading, nextId>>

\* cancelAdd(): dialog.close()
cancelAdd ==
    /\ dialogOpen' = FALSE
    /\ UNCHANGED <<image, pasteLoading, editorVars, composerVars, nextId>>

(***************************************************************************)
(* The scene composer                                                      *)
(***************************************************************************)
\* canvas.getBoundingClientRect(): the canvas lies under the 50 px toolbar
boundingRect == [left |-> 0, top |-> 50]

\* getImageBoundingBox without the branch for quarter turns: the box of the
\* image as if it were not rotated
getImageBoundingBoxUnrotated(img) ==
    LET originalWidth  == Div(ToNumber(img.cropWidth), ToNumber(img.pixelsPerMetre))
        originalHeight == Div(ToNumber(img.cropHeight), ToNumber(img.pixelsPerMetre))
        px == ToNumber(img.x)
        py == ToNumber(img.y)
    IN  [ xMin |-> px, xMax |-> Add(px, originalWidth),
          yMin |-> py, yMax |-> Add(py, originalHeight) ]

\* getImageBoundingBox(image)
getImageBoundingBox(img) ==
    LET originalWidth  == Div(ToNumber(img.cropWidth), ToNumber(img.pixelsPerMetre))
        originalHeight == Div(ToNumber(img.cropHeight), ToNumber(img.pixelsPerMetre))
        halfW == Div(originalWidth, Q(2))
        halfH == Div(originalHeight, Q(2))
        px == ToNumber(img.x)
        py == ToNumber(img.y)
    IN  IF img.rotationDegrees = 0 \/ img.rotationDegrees = 180
        THEN [ xMin |-> px, xMax |-> Add(px, originalWidth),
               yMin |-> py, yMax |-> Add(py, originalHeight) ]
        ELSE [ xMin |-> Sub(Add(px, halfW), halfH),
               xMax |-> Add(Add(px, halfW), halfH),
               yMin |-> Sub(Add(py, halfH), halfW),
               yMax |-> Add(Add(py, halfH), halfW) ]

\* the predicate of handleMouseDown's findIndex
Hits(img, mouseX, mouseY) ==
    LET bbox == getImageBoundingBox(img)
    IN  /\ Le(bbox.xMin, mouseX)
        /\ Le(mouseX, bbox.xMax)
        /\ Le(bbox.yMin, mouseY)
        /\ Le(mouseY, bbox.yMax)

\* the scan run from the rear: the last index (from 1) that hits, 0 for none
findIndexRearmost(mouseX, mouseY) ==
    LET hit == {i \in 1..Len(images) : Hits(heap[images[i]], mouseX, mouseY)}
    IN  IF hit = {} THEN 0 ELSE CHOOSE i \in hit : \A j \in hit : j <= i

\* images.findIndex(...): the first index (from 1) that hits, 0 for none
findIndex(mouseX, mouseY) ==
    LET hit == {i \in 1..Len(images) : Hits(heap[images[i]], mouseX, mouseY)}
    IN  IF hit = {} THEN 0 ELSE CHOOSE i \in hit : \A j \in hit : i <= j

\* images.splice(idx, 1) on the sequence seq
Splice(seq, idx) == SubSeq(seq, 1, idx - 1) \o SubSeq(seq, idx + 1, Len(seq))

\* handleMouseMove moving the dragged image along its own axes: for an image
\* turned by 90 or 270 degrees the pointer's x and y deltas are exchanged
composerHandleMouseMoveTurned(clientX, clientY) ==
    /\ mousePos' = Some([x |-> Q(clientX - boundingRect.left),
                         y |-> Q(clientY - boundingRect.top)])
    /\ IF imageDragState # None
       THEN LET d == imageDragState[1]
                o == heap[d.img]
                turned == o.rotationDegrees = 90 \/ o.rotationDegrees = 270
                dx == IF turned THEN clientY - d.lastY ELSE clientX - d.lastX
                dy == IF turned THEN clientX - d.lastX ELSE clientY - d.lastY
            IN  /\ heap' = [heap EXCEPT ![d.img] =
                       [o EXCEPT
                          !.x = Add(ToNumber(o.x), Div(Q(dx), canvasPixelsPerMeter)),
                          !.y = Add(ToNumber(o.y), Div(Q(dy), canvasPixelsPerMeter))]]
                /\ imageDragState' = Some([d EXCEPT !.lastX = clientX,
                                                    !.lastY = clientY])
                /\ UNCHANGED <<renderOrigin, canvasDragState>>
       ELSE IF canvasDragState # None
       THEN LET d == canvasDragState[1]
            IN  /\ renderOrigin' =
                       [ x |-> Sub(renderOrigin.x,
                                   Div(Q(clientX - d.lastX), canvasPixelsPerMeter)),
                         y |-> Sub(renderOrigin.y,
                                   Div(Q(clientY - d.lastY), canvasPixelsPerMeter)) ]
                /\ canvasDragState' = Some([lastX |-> clientX, lastY |-> clientY])
                /\ UNCHANGED <<heap, imageDragState>>
       ELSE UNCHANGED <<heap, renderOrigin, imageDragState, canvasDragState>>
    /\ UNCHANGED <<dialogVars, editorVars, images, selectedImage,
                   canvasPixelsPerMeter, loadFinished, localStorage, loading, nextId>>

\* handleMouseMove adding the pointer's delta to the camera origin during a
\* pan, as it adds it to a dragged image
composerHandleMouseMoveOriginFollows(clientX, clientY) ==
    /\ mousePos' = Some([x |-> Q(clientX - boundingRect.left),
                         y |-> Q(clientY - boundingRect.top)])
    /\ IF imageDragState # None
       THEN LET d == imageDragState[1]
                o == heap[d.img]
            IN  /\ heap' = [heap EXCEPT ![d.img] =
                       [o EXCEPT
                          !.x = Add(ToNumber(o.x),
                                    Div(Q(clientX - d.lastX), canvasPixelsPerMeter)),
                          !.y = Add(ToNumber(o.y),
                                    Div(Q(clientY - d.lastY), canvasPixelsPerMeter))]]
                /\ imageDragState' = Some([d EXCEPT !.lastX = clientX,
                                                    !.lastY = clientY])
                /\ UNCHANGED <<renderOrigin, canvasDragState>>
       ELSE IF canvasDragState # None
       THEN LET d == canvasDragState[1]
            IN  /\ renderOrigin' =
                       [ x |-> Add(renderOrigin.x,
                                   Div(Q(clientX - d.lastX), canvasPixelsPerMeter)),
                         y |-> Add(renderOrigin.y,
                                   Div(Q(clientY - d.lastY), canvasPixelsPerMeter)) ]
                /\ canvasDragState' = Some([lastX |-> clientX, lastY |-> clientY])
                /\ UNCHANGED <<heap, imageDragState>>
       ELSE UNCHANGED <<heap, renderOrigin, imageDragState, canvasDragState>>
    /\ UNCHANGED <<dialogVars, editorVars, images, selectedImage,
                   canvasPixelsPerMeter, loadFinished, localStorage, loading, nextId>>

\* handleMouseMove(e) of the composer
composerHandleMouseMove(clientX, clientY) ==
    /\ mousePos' = Some([x |-> Q(clientX - boundingRect.left),
                         y |-> Q(clientY - boundingRect.top)])
    /\ IF imageDragState # None
       THEN LET d == imageDragState[1]
                o == heap[d.img]
            IN  /\ heap' = [heap EXCEPT ![d.img] =
                       [o EXCEPT
                          !.x = Add(ToNumber(o.x),
                                    Div(Q(clientX - d.lastX), canvasPixelsPerMeter)),
                          !.y = Add(ToNumber(o.y),
                                    Div(Q(clientY - d.lastY), canvasPixelsPerMeter))]]
                /\ imageDragState' = Some([d EXCEPT !.lastX = clientX,
                                                    !.lastY = clientY])
                /\ UNCHANGED <<renderOrigin, canvasDragState>>
       ELSE IF canvasDragState # None
       THEN LET d == canvasDragState[1]
            IN  /\ renderOrigin' =
                       [ x |-> Sub(renderOrigin.x,
                                   Div(Q(clientX - d.lastX), canvasPixelsPerMeter)),
                         y |-> Sub(renderOrigin.y,
                                   Div(Q(clientY - d.lastY), canvasPixelsPerMeter)) ]
                /\ canvasDragState' = Some([lastX |-> clientX, lastY |-> clientY])
                /\ UNCHANGED <<heap, imageDragState>>
       ELSE UNCHANGED <<heap, renderOrigin, imageDragState, canvasDragState>>
    /\ UNCHANGED <<dialogVars, editorVars, images, selectedImage,
                   canvasPixelsPerMeter, loadFinished, localStorage, loading, nextId>>

\* handleMouseDown bringing the hit image to the front by exchanging it with
\* the front image
composerHandleMouseDownSwaps(clientX, clientY, button) ==
    LET mouseX == Add(Div(Q(clientX - boundingRect.left), canvasPixelsPerMeter),
                      renderOrigin.x)
        mouseY == Add(Div(Q(clientY - boundingRect.top), canvasPixelsPerMeter),
                      renderOrigin.y)
        imgIdx == findIndex(mouseX, mouseY)
    IN  /\ IF button = 0
           THEN IF imgIdx = 0
                THEN /\ selectedImage' = None
                     /\ UNCHANGED <<images, localStorage, imageDragState,
                                    canvasDragState>>
                ELSE LET img == images[imgIdx]
                         reordered == [images EXCEPT ![1] = img,
                                                     ![imgIdx] = images[1]]
                     IN  /\ IF imgIdx # 1
                            THEN /\ images' = reordered
                                 /\ localStorage' = saveState(reordered, heap)
                            ELSE UNCHANGED <<images, localStorage>>
                         /\ imageDragState' = Some([lastX |-> clientX,
                                                    lastY |-> clientY,
                                                    img   |-> img])
                         /\ selectedImage' = Some(img)
                         /\ UNCHANGED canvasDragState
           ELSE IF button = 1
           THEN /\ canvasDragState' = Some([lastX |-> clientX, lastY |-> clientY])
                /\ UNCHANGED <<images, localStorage, imageDragState, selectedImage>>
           ELSE UNCHANGED <<images, localStorage, imageDragState, selectedImage,
                            canvasDragState>>
        /\ UNCHANGED <<dialogVars, editorVars, heap, cameraVars, loadFinished,
                       mousePos, loading, nextId>>

\* handleMouseDown(e) of the composer
composerHandleMouseDown(clientX, clientY, button) ==
    LET mouseX == Add(Div(Q(clientX - boundingRect.left), canvasPixelsPerMeter),
                      renderOrigin.x)
        mouseY == Add(Div(Q(clientY - boundingRect.top), canvasPixelsPerMeter),
                      renderOrigin.y)
        imgIdx == findIndex(mouseX, mouseY)
    IN  /\ IF button = 0
           THEN IF imgIdx = 0
                THEN /\ selectedImage' = None
                     /\ UNCHANGED <<images, localStorage, imageDragState,
                                    canvasDragState>>
                ELSE LET img == images[imgIdx]
                         reordered == <<img>> \o Splice(images, imgIdx)
                     IN  /\ IF imgIdx # 1
                            THEN /\ images' = reordered
                                 /\ localStorage' = saveState(reordered, heap)
                            ELSE UNCHANGED <<images, localStorage>>
                         /\ imageDragState' = Some([lastX |-> clientX,
                                                    lastY |-> clientY,
                                                    img   |-> img])
                         /\ selectedImage' = Some(img)
                         /\ UNCHANGED canvasDragState
           ELSE IF button = 1
           THEN /\ canvasDragState' = Some([lastX |-> clientX, lastY |-> clientY])
                /\ UNCHANGED <<images, localStorage, imageDragState, selectedImage>>
           ELSE UNCHANGED <<images, localStorage, imageDragState, selectedImage,
                            canvasDragState>>
        /\ UNCHANGED <<dialogVars, editorVars, heap, cameraVars, loadFinished,
                       mousePos, loading, nextId>>

\* handleMouseUp(e) of the composer
composerHandleMouseUp ==
    /\ localStorage' = saveState(images, heap)
    /\ imageDragState' = None
    /\ canvasDragState' = None
    /\ UNCHANGED <<dialogVars, editorVars, heap, images, selectedImage, cameraVars,
                   loadFinished, mousePos, loading, nextId>>

\* base to the power k, k any integer
RECURSIVE Pow(_, _)
Pow(base, k) ==
    IF k = 0 THEN Q(1)
    ELSE IF k < 0 THEN Recip(Pow(base, -k))
    ELSE Mul(base, Pow(base, k - 1))

\* handleMouseWheel without the anchoring: the zoom changes and the origin
\* stays, so the scene is scaled about the canvas' top left corner
handleMouseWheelUnanchored(deltaY) ==
    LET multiplier == Pow(Mk(13, 10), (0 - deltaY) \div 100)
    IN  /\ canvasPixelsPerMeter' = Mul(canvasPixelsPerMeter, multiplier)
        /\ UNCHANGED <<dialogVars, editorVars, heap, images, selectedImage,
                       renderOrigin, loadFinished, gestureVars, localStorage,
                       loading, nextId>>

\* handleMouseWheel(e), for a deltaY that is a multiple of 100 (one notch):
\* the multiplier Math.pow(1.3, deltaY * -0.01) is then rational
handleMouseWheel(deltaY) ==
    LET multiplier == Pow(Mk(13, 10), (0 - deltaY) \div 100)
    IN  /\ IF mousePos # None
           THEN LET mousePosMetres ==
                        [ x |-> Add(Div(mousePos[1].x, canvasPixelsPerMeter),
                                    renderOrigin.x),
                          y |-> Add(Div(mousePos[1].y, canvasPixelsPerMeter),
                                    renderOrigin.y) ]
                IN  renderOrigin' =
                        [ x |-> Sub(mousePosMetres.x,
                                    Div(Sub(mousePosMetres.x, renderOrigin.x),
                                        multiplier)),
                          y |-> Sub(mousePosMetres.y,
                                    Div(Sub(mousePosMetres.y, renderOrigin.y),
                                        multiplier)) ]
           ELSE UNCHANGED renderOrigin
        /\ canvasPixelsPerMeter' = Mul(canvasPixelsPerMeter, multiplier)
        /\ UNCHANGED <<dialogVars, editorVars, heap, images, selectedImage,
                       loadFinished, gestureVars, localStorage, loading, nextId>>

\* the frame of the toolbar handlers, which write fields of the selected image
ToolbarFrame ==
    UNCHANGED <<dialogVars, editorVars, images, selectedImage, cameraVars,
                loadFinished, gestureVars, localStorage, loading, nextId>>

\* handleRotateLeft as a subtraction of 90 without the wrap-around
handleRotateLeftUnwrapped ==
    /\ IF selectedImage # None
       THEN heap' = [heap EXCEPT ![selectedImage[1]].rotationDegrees = @ - 90]
       ELSE UNCHANGED heap
    /\ ToolbarFrame

\* handleRotateLeft()
handleRotateLeft ==
    /\ IF selectedImage # None
       THEN heap' = [heap EXCEPT ![selectedImage[1]].rotationDegrees =
                                     (@ + 270) % 360]
       ELSE UNCHANGED heap
    /\ ToolbarFrame

\* handleRotateRight()
handleRotateRight ==
    /\ IF selectedImage # None
       THEN heap' = [heap EXCEPT ![selectedImage[1]].rotationDegrees =
                                     (@ + 90) % 360]
       ELSE UNCHANGED heap
    /\ ToolbarFrame

\* handleRename(); answer is what prompt() returned: a string, or null when
\* the prompt was dismissed (optional). "" and null both give undefined
handleRename(answer) ==
    /\ IF selectedImage # None
       THEN heap' = [heap EXCEPT ![selectedImage[1]].label =
                                     IF answer = None \/ answer = Some("")
                                     THEN None ELSE answer]
       ELSE UNCHANGED heap
    /\ ToolbarFrame

\* handleOpacityChange(e); value is the range input's valueAsNumber
handleOpacityChange(value) ==
    /\ IF selectedImage # None
       THEN heap' = [heap EXCEPT ![selectedImage[1]].opacity = value]
       ELSE UNCHANGED heap
    /\ ToolbarFrame

\* images.findIndex((img) => img.id === id): from 1, 0 for none
findIndexById(id) ==
    LET same == {i \in 1..Len(images) : heap[images[i]].id = id}
    IN  IF same = {} THEN 0 ELSE CHOOSE i \in same : \A j \in same : i <= j

\* handleDelete removing the rearmost image instead of the one found by id
handleDeleteRearmost ==
    /\ IF selectedImage # None /\ findIndexById(heap[selectedImage[1]].id) > 0
       THEN images' = Splice(images, Len(images))
       ELSE UNCHANGED images
    /\ UNCHANGED <<dialogVars, editorVars, heap, selectedImage, cameraVars,
                   loadFinished, gestureVars, localStorage, loading, nextId>>

\* handleDelete()
handleDelete ==
    /\ IF selectedImage # None /\ findIndexById(heap[selectedImage[1]].id) > 0
       THEN images' = Splice(images, findIndexById(heap[selectedImage[1]].id))
       ELSE UNCHANGED images
    /\ UNCHANGED <<dialogVars, editorVars, heap, selectedImage, cameraVars,
                   loadFinished, gestureVars, localStorage, loading, nextId>>

(***************************************************************************)
(* Persistence: loadState                                                  *)
(***************************************************************************)
\* resolve({ ...elem, image: img }): the object made of a saved record
LoadedImage(elem) == elem

\* loadState pushing the images as their decodes complete: the image whose
\* decode completes last comes last in the scene
DecodeCompleteAsDecoded(i) ==
    /\ loading # None
    /\ i \in (1..Len(loading[1].state)) \ loading[1].decoded
    /\ LET saved == loading[1].state
           decoded == loading[1].decoded \cup {i}
           order == SelectSeq([k \in 1..Len(saved) |-> k], LAMBDA k : k # i) \o <<i>>
       IN  IF decoded = 1..Len(saved)
           THEN /\ heap' = heap \o [k \in 1..Len(saved) |-> LoadedImage(saved[order[k]])]
                /\ images' = images \o [k \in 1..Len(saved) |-> Len(heap) + k]
                /\ loadFinished' = TRUE
                /\ loading' = None
           ELSE /\ loading' = Some([state |-> saved, decoded |-> decoded])
                /\ UNCHANGED <<heap, images, loadFinished>>
    /\ UNCHANGED <<dialogVars, editorVars, selectedImage, cameraVars, gestureVars,
                   localStorage, nextId>>

\* img.onload of the i-th saved image, while loadState awaits Promise.all.
\* The last one to decode resolves Promise.all, and loadState's continuation
\* runs before any other event: it pushes the resolved objects in the saved
\* order and sets loadFinished
DecodeComplete(i) ==
    /\ loading # None
    /\ i \in (1..Len(loading[1].state)) \ loading[1].decoded
    /\ LET saved == loading[1].state
           decoded == loading[1].decoded \cup {i}
       IN  IF decoded = 1..Len(saved)
           THEN /\ heap' = heap \o [k \in 1..Len(saved) |-> LoadedImage(saved[k])]
                /\ images' = images \o [k \in 1..Len(saved) |-> Len(heap) + k]
                /\ loadFinished' = TRUE
                /\ loading' = None
           ELSE /\ loading' = Some([state |-> saved, decoded |-> decoded])
                /\ UNCHANGED <<heap, images, loadFinished>>
    /\ UNCHANGED <<dialogVars, editorVars, selectedImage, cameraVars, gestureVars,
                   localStorage, nextId>>

(***************************************************************************)
(* generateId() of ../utils: a counter, so that no id is given twice; it   *)
(* starts above the ids of the stored images                               *)
(***************************************************************************)
FirstFreeId == 3

(***************************************************************************)
(* Start-up                                                                *)
(***************************************************************************)
\* calibrated images of an earlier session, as saveState stored them
SavedPlanA ==
    SavedImage([NewRenderableImage("wide", 1) EXCEPT
                  !.cropOffsetX = Q(20), !.cropOffsetY = Q(20),
                  !.cropWidth = Q(160), !.cropHeight = Q(60),
                  !.pixelsPerMetre = Q(40)])

SavedPlanB ==
    SavedImage([NewRenderableImage("small", 2) EXCEPT
                  !.x = Q(2), !.y = Q(1),
                  !.cropWidth = Q(100), !.cropHeight = Q(50),
                  !.pixelsPerMetre = Q(25), !.label = Some("hall")])

\* the scene composer's setup and its onMounted, which calls loadState():
\* with a stored value loadState suspends until the saved images have decoded
\* (an empty list has nothing to wait for); with none it returns at once
InitApp(stored) ==
    /\ dialogOpen = FALSE
    /\ image = None
    /\ pasteLoading = None
    /\ renderableImage = 0
    /\ state = NoState
    /\ mouseLocation = None
    /\ shiftPressed = FALSE
    /\ cursorClass = None
    /\ heap = << >>
    /\ images = << >>
    /\ selectedImage = None
    /\ canvasPixelsPerMeter = Q(INITIAL_PIXELS_PER_METER)
    /\ renderOrigin = [x |-> Q(0), y |-> Q(0)]
    /\ imageDragState = None
    /\ canvasDragState = None
    /\ mousePos = None
    /\ localStorage = stored
    /\ loadFinished = (stored = Some(<< >>))
    /\ loading = IF stored = None \/ stored = Some(<< >>) THEN None
                 ELSE Some([state |-> stored[1], decoded |-> {}])
    /\ nextId = FirstFreeId

(***************************************************************************)
(* The calibration editor alone: one pasted image, from the paste to the   *)
(* save or the cancel                                                      *)
(***************************************************************************)
\* the editor's canvas and buttons take input while the dialog shows them
EditorShown == dialogOpen /\ image # None

\* pointer positions on the editor's canvas: the top left and the bottom
\* right corner of the initial crop rectangle of "wide" (scale factor 6), and
\* the middle of the canvas' bottom edge
EditorPoints == {<<120, 120>>, <<1080, 480>>, <<600, 700>>}

\* click positions on the editor's canvas: the corners of a 300 x 400
\* rectangle, every two of which are a whole number of pixels apart
ClickPoints == {<<0, 0>>, <<300, 0>>, <<0, 400>>, <<300, 400>>}

Lengths == {NaN, Q(0), Q(2)}

KeyCodes == {"ShiftLeft", "ShiftRight", "KeyA"}

\* an empty scene with nothing stored, and the image "wide" just pasted:
\* the dialog is shown and the file is loading
InitEditor ==
    /\ dialogOpen = TRUE
    /\ image = None
    /\ pasteLoading = Some("wide")
    /\ renderableImage = 0
    /\ state = NoState
    /\ mouseLocation = None
    /\ shiftPressed = FALSE
    /\ cursorClass = None
    /\ heap = << >>
    /\ images = << >>
    /\ selectedImage = None
    /\ canvasPixelsPerMeter = Q(INITIAL_PIXELS_PER_METER)
    /\ renderOrigin = [x |-> Q(0), y |-> Q(0)]
    /\ imageDragState = None
    /\ canvasDragState = None
    /\ mousePos = None
    /\ localStorage = None
    /\ loadFinished = FALSE
    /\ loading = None
    /\ nextId = FirstFreeId

NextEditor ==
    \/ PasteImageLoaded
    \/ EditorShown /\ \E p \in EditorPoints : editorHandleMouseMove(p[1], p[2])
    \/ EditorShown /\ editorHandleMouseDown
    \/ EditorShown /\ editorHandleMouseUp
    \/ EditorShown /\ \E p \in ClickPoints : handleMouseClick(p[1], p[2])
    \/ EditorShown /\ handleMouseLeave
    \/ EditorShown /\ \E len \in Lengths : handleLengthInputChange(len)
    \/ EditorShown /\ handleNext
    \/ EditorShown /\ handleSave
    \/ EditorShown /\ cancelAdd
    \/ image # None /\ \E code \in KeyCodes : handleKeyDown(code)
    \/ image # None /\ \E code \in KeyCodes : handleKeyUp(code)

SpecEditor == InitEditor /\ [][NextEditor]_vars

(***************************************************************************)
(* The scale stage's line alone: one pasted image, advanced with its       *)
(* initial crop rectangle, and clicks with and without Shift               *)
(***************************************************************************)
\* click positions on the editor's canvas: from the first, the second is as
\* far across as down, the third straight across, the fourth further across
\* than down, the fifth further down than across
SnapPoints == {<<0, 0>>, <<300, 300>>, <<300, 0>>, <<600, 300>>, <<150, 450>>}

NextSnap ==
    \/ PasteImageLoaded
    \/ EditorShown /\ handleNext
    \/ EditorShown /\ \E p \in SnapPoints : handleMouseClick(p[1], p[2])
    \/ image # None /\ \E code \in KeyCodes : handleKeyDown(code)
    \/ image # None /\ \E code \in KeyCodes : handleKeyUp(code)

SpecSnap == InitEditor /\ [][NextSnap]_vars

(***************************************************************************)
(* The measurement: one pasted image, "wide" (scale factor 15/2 once       *)
(* advanced) or "sheet" (scale factor 1), advanced with its initial crop   *)
(* rectangle, a line drawn with or without Shift, a length, and the save   *)
(***************************************************************************)
MeasuredSources == {"wide", "sheet"}

MeasuredLengths == {Q(2), Q(3)}

InitMeasure ==
    /\ dialogOpen = TRUE
    /\ image = None
    /\ pasteLoading \in {Some(src) : src \in MeasuredSources}
    /\ renderableImage = 0
    /\ state = NoState
    /\ mouseLocation = None
    /\ shiftPressed = FALSE
    /\ cursorClass = None
    /\ heap = << >>
    /\ images = << >>
    /\ selectedImage = None
    /\ canvasPixelsPerMeter = Q(INITIAL_PIXELS_PER_METER)
    /\ renderOrigin = [x |-> Q(0), y |-> Q(0)]
    /\ imageDragState = None
    /\ canvasDragState = None
    /\ mousePos = None
    /\ localStorage = None
    /\ loadFinished = FALSE
    /\ loading = None
    /\ nextId = FirstFreeId

NextMeasure ==
    \/ PasteImageLoaded
    \/ EditorShown /\ handleNext
    \/ EditorShown /\ \E p \in ClickPoints : handleMouseClick(p[1], p[2])
    \/ EditorShown /\ \E len \in MeasuredLengths : handleLengthInputChange(len)
    \/ EditorShown /\ handleSave
    \/ image # None /\ handleKeyDown("ShiftLeft")
    \/ image # None /\ handleKeyUp("ShiftLeft")

SpecMeasure == InitMeasure /\ [][NextMeasure]_vars

(***************************************************************************)
(* The scene composer alone: the scene of an earlier session is loaded,    *)
(* calibrated images arrive from the paste dialog, and the user clicks on  *)
(* the canvas and deletes.  The pointer is not moved, so no image is       *)
(* dragged.                                                                *)
(***************************************************************************)
\* the most images a scene gets
MaxImages == 3

ComposerStores == {None, Some(<<SavedPlanA, SavedPlanB>>)}

\* a finished calibration of "wide" with its initial crop rectangle
CalibratedPlanC ==
    [NewRenderableImage("wide", 0) EXCEPT
       !.cropOffsetX = Q(20), !.cropOffsetY = Q(20),
       !.cropWidth = Q(160), !.cropHeight = Q(60),
       !.pixelsPerMetre = Q(80)]

\* what calibrations emit
Calibrated == {CalibratedPlanC}

\* a calibration completes: the image was pasted and decoded, its editor
\* mounted (PasteImageLoaded) and saved (handleSave), giving the record img
\* with a fresh id to addImage
CalibrationCompletes(img) ==
    LET ref == Len(heap) + 1
        h   == Append(heap, [img EXCEPT !.id = nextId])
    IN  /\ heap' = h
        /\ nextId' = nextId + 1
        /\ addImage(ref, h)
        /\ UNCHANGED <<image, pasteLoading, editorVars, selectedImage, cameraVars,
                       loadFinished, gestureVars, loading>>

\* pointer positions (clientX, clientY) over the composer's canvas; at the
\* initial camera they are the world points (1, 1/2), (3, 6/5), (5, 2) and
\* (7, 4): in plans C and A, in plans A and B, in plan B, in none
ComposerPoints == {<<50, 75>>, <<150, 110>>, <<250, 150>>, <<350, 250>>}

\* the primary and the secondary button
ClickButtons == {0, 2}

InitComposer == \E stored \in ComposerStores : InitApp(stored)

NextComposer ==
    \/ \E i \in 1..MaxImages : DecodeComplete(i)
    \/ \E img \in Calibrated : Len(heap) < MaxImages /\ CalibrationCompletes(img)
    \/ \E p \in ComposerPoints, b \in ClickButtons :
           composerHandleMouseDown(p[1], p[2], b)
    \/ composerHandleMouseUp
    \/ handleDelete

SpecComposer == InitComposer /\ [][NextComposer]_vars

(***************************************************************************)
(* The toolbar: the scene of plans A and B is loaded, and the user selects *)
(* plan A, or nothing, and works on the selection with the toolbar         *)
(***************************************************************************)
\* in plan A alone, and in no plan
ToolbarPoints == {<<50, 75>>, <<350, 250>>}

Opacities == {Mk(1, 2)}

PromptAnswers == {None, Some("den")}

InitToolbar == InitApp(Some(<<SavedPlanA, SavedPlanB>>))

NextToolbar ==
    \/ \E i \in 1..MaxImages : DecodeComplete(i)
    \/ \E p \in ToolbarPoints : composerHandleMouseDown(p[1], p[2], 0)
    \/ composerHandleMouseUp
    \/ handleRotateLeft
    \/ handleRotateRight
    \/ \E answer \in PromptAnswers : handleRename(answer)
    \/ \E value \in Opacities : handleOpacityChange(value)
    \/ handleDelete

SpecToolbar == InitToolbar /\ [][NextToolbar]_vars

(***************************************************************************)
(* The whole page: the scene of plan A is loaded; the user pastes images,  *)
(* calibrates them in the dialog or cancels, and clicks on the scene.  The *)
(* dialog is modal: while it is shown the page behind it takes no pointer  *)
(* input, and a paste is taken while no dialog is shown.                   *)
(***************************************************************************)
MaxPageImages == 2

PageClickPoints == {<<0, 0>>, <<300, 0>>}

PageLengths == {Q(2)}

PagePoints == {<<50, 75>>}

ClipboardItems == {None, Some("wide")}

Init == InitApp(Some(<<SavedPlanA>>))

Next ==
    \/ \E i \in 1..MaxImages : DecodeComplete(i)
    \/ \E item \in ClipboardItems :
           /\ ~dialogOpen /\ pasteLoading = None /\ Len(heap) < MaxPageImages
           /\ handlePaste(item)
    \/ PasteImageLoaded
    \/ EditorShown /\ \E p \in PageClickPoints : handleMouseClick(p[1], p[2])
    \/ EditorShown /\ \E len \in PageLengths : handleLengthInputChange(len)
    \/ EditorShown /\ handleNext
    \/ EditorShown /\ handleSave
    \/ EditorShown /\ cancelAdd
    \/ image # None /\ handleKeyDown("ShiftLeft")
    \/ image # None /\ handleKeyUp("ShiftLeft")
    \/ ~dialogOpen /\ \E p \in PagePoints : composerHandleMouseDown(p[1], p[2], 0)
    \/ ~dialogOpen /\ composerHandleMouseUp
    \/ ~dialogOpen /\ handleDelete

Spec == Init /\ [][Next]_vars

(***************************************************************************)
(* Dragging: the scene of plans D and B is loaded, the camera being where  *)
(* the page starts it or where one wheel notch and a pan have left it; the *)
(* user presses on the images, moves the pointer with and without a button *)
(* held, releases, and rotates the selection.                              *)
(***************************************************************************)
\* a calibrated image of an earlier session: 4 m x 2 m, at the origin
SavedPlanD ==
    SavedImage([NewRenderableImage("wide", 1) EXCEPT
                  !.cropOffsetX = Q(20), !.cropOffsetY = Q(10),
                  !.cropWidth = Q(160), !.cropHeight = Q(80),
                  !.pixelsPerMetre = Q(40)])

\* the composer with the stored value read and its images decoding, the
\* camera at cam and the pointer last seen at pos (optional)
InitScene(stored, cam, pos) ==
    /\ dialogOpen = FALSE
    /\ image = None
    /\ pasteLoading = None
    /\ renderableImage = 0
    /\ state = NoState
    /\ mouseLocation = None
    /\ shiftPressed = FALSE
    /\ cursorClass = None
    /\ heap = << >>
    /\ images = << >>
    /\ selectedImage = None
    /\ canvasPixelsPerMeter = cam.pixelsPerMeter
    /\ renderOrigin = cam.origin
    /\ imageDragState = None
    /\ canvasDragState = None
    /\ mousePos = pos
    /\ localStorage = Some(stored)
    /\ loadFinished = FALSE
    /\ loading = Some([state |-> stored, decoded |-> {}])
    /\ nextId = FirstFreeId

\* the camera as the page starts it, no pointer seen yet; and after one wheel
\* notch and then a pan by 65 px to the right that ended with the pointer at
\* (165, 50) of the canvas
Cameras ==
    { [pixelsPerMeter |-> Q(INITIAL_PIXELS_PER_METER),
       origin |-> [x |-> Q(0), y |-> Q(0)],
       pointer |-> None],
      [pixelsPerMeter |-> Mul(Q(INITIAL_PIXELS_PER_METER), Mk(13, 10)),
       origin |-> [x |-> Q(0 - 1), y |-> Q(0)],
       pointer |-> Some([x |-> Q(165), y |-> Q(50)])] }

\* pointer positions (clientX, clientY) over the composer's canvas
DragPoints == {<<100, 100>>, <<200, 150>>}

InitDrag ==
    \E cam \in Cameras : InitScene(<<SavedPlanD, SavedPlanB>>, cam, cam.pointer)

NextDrag ==
    \/ \E i \in 1..MaxImages : DecodeComplete(i)
    \/ \E p \in DragPoints : composerHandleMouseDown(p[1], p[2], 0)
    \/ \E p \in DragPoints : composerHandleMouseMove(p[1], p[2])
    \/ composerHandleMouseUp
    \/ handleRotateRight

SpecDrag == InitDrag /\ [][NextDrag]_vars

(***************************************************************************)
(* Zooming: the scene of plans D and B is loaded; the pointer is where the *)
(* camera's history or a later move left it, and the wheel is turned notch *)
(* by notch within a range of zooms                                        *)
(***************************************************************************)
\* the zooms (canvas pixels per metre) the wheel is turned within
MinZoom == 29

MaxZoom == 85

\* positions relative to the canvas the pointer was moved to last
PointerPositions ==
    {Some([x |-> Q(p[1]), y |-> Q(p[2])]) :
        p \in {<<50, 25>>, <<250, 100>>, <<130, 0>>}}

\* one notch away from the user and one towards the user
WheelDeltas == {0 - 100, 100}

InitZoom ==
    \E cam \in Cameras :
        \E pos \in PointerPositions \cup {cam.pointer} :
            InitScene(<<SavedPlanD, SavedPlanB>>, cam, pos)

NextZoom ==
    \/ \E i \in 1..MaxImages : DecodeComplete(i)
    \/ \E deltaY \in WheelDeltas :
           /\ handleMouseWheel(deltaY)
           /\ Le(Q(MinZoom), canvasPixelsPerMeter')
           /\ Le(canvasPixelsPerMeter', Q(MaxZoom))

SpecZoom == InitZoom /\ [][NextZoom]_vars

(***************************************************************************)
(* Panning: the scene of plan D is loaded; the primary and the middle      *)
(* button are pressed and released and the pointer is moved, the camera    *)
(* origin staying within PanLimit metres of the world's origin             *)
(***************************************************************************)
\* how far, in metres, the camera origin is panned from the world's origin
PanLimit == 3

\* MouseEvent.button: 0 the primary button, 1 the middle button
PanButtons == {0, 1}

InitPan ==
    \E cam \in Cameras : InitScene(<<SavedPlanD>>, cam, cam.pointer)

NextPan ==
    \/ \E i \in 1..MaxImages : DecodeComplete(i)
    \/ \E p \in DragPoints : \E b \in PanButtons :
           composerHandleMouseDown(p[1], p[2], b)
    \/ \E p \in DragPoints :
           /\ composerHandleMouseMove(p[1], p[2])
           /\ Le(MathAbs(renderOrigin'.x), Q(PanLimit))
           /\ Le(MathAbs(renderOrigin'.y), Q(PanLimit))
    \/ composerHandleMouseUp

SpecPan == InitPan /\ [][NextPan]_vars

(***************************************************************************)
(* Properties                                                              *)
(***************************************************************************)
\* the references held by the composer's sequence
Members == {images[i] : i \in 1..Len(images)}

\* C1: in the crop stage, from the initial crop state on and after every
\* pointer move made while handles are held, xMin <= xMax and yMin <= yMax
C1_CropNeverInverts ==
    state.stage = "crop" =>
        /\ Le(state.xMin, state.xMax)
        /\ Le(state.yMin, state.yMax)

\* C2: every step of a mutating operation of the composer (move-release,
\* rotate left or right, delete, opacity change, relabel) leaves under the save
\* key the serialization of the image sequence as the step left it
C2_MutationsPersist ==
    [][ ( \/ composerHandleMouseUp
          \/ handleRotateLeft
          \/ handleRotateRight
          \/ handleDelete
          \/ \E value \in Opacities : handleOpacityChange(value)
          \/ \E answer \in PromptAnswers : handleRename(answer) )
        => localStorage' = Some(Serialize(images', heap')) ]_vars

\* C3: a primary-button press that hits the image at index k brings it to the
\* front, keeps the other images in their relative order, neither removes nor
\* duplicates an image, and selects the hit image
C3_PressPromotes ==
    [][ \A p \in ComposerPoints :
          LET k == findIndex(Add(Div(Q(p[1] - boundingRect.left),
                                     canvasPixelsPerMeter), renderOrigin.x),
                             Add(Div(Q(p[2] - boundingRect.top),
                                     canvasPixelsPerMeter), renderOrigin.y))
          IN  (k > 0 /\ composerHandleMouseDown(p[1], p[2], 0)) =>
                  /\ Len(images') = Len(images)
                  /\ images'[1] = images[k]
                  /\ Splice(images', 1) = Splice(images, k)
                  /\ selectedImage' = Some(images[k]) ]_vars

\* C3's case: three images, and a press that hit the rearmost one (plan B,
\* behind the added plan and plan A) has brought it to the front and selected it
C3_RearmostPromoted ==
    /\ Len(images) = 3
    /\ selectedImage = Some(images[1])
    /\ imageDragState # None
    /\ SavedImage(heap[images[1]]) = SavedPlanB
    /\ heap[images[2]].pixelsPerMetre = CalibratedPlanC.pixelsPerMetre
    /\ SavedImage(heap[images[3]]) = SavedPlanA

\* C4: selectedImage is none or a reference to a member of the sequence
C4_SelectionIsMember ==
    selectedImage = None \/ selectedImage[1] \in Members

\* C5: the completion callback runs (the composer's sequence grows) only from
\* the scale stage with start, end and length all defined, and then it is the
\* image under calibration that is added; in every other state handleSave
\* changes nothing
C5_SaveOnlyWhenComplete ==
    [][ /\ Len(images') > Len(images) =>
               /\ state.stage = "scale"
               /\ state.start # None /\ state.end # None /\ state.length # None
               /\ images' = <<renderableImage>> \o images
               /\ state' = state
        /\ ~(saveDisabled /\ handleSave) ]_vars

\* C5's case: a calibration completed and was emitted: a line of 40 image
\* pixels measured as 2 metres
C5_Emitted ==
    /\ ~dialogOpen
    /\ state.stage = "scale"
    /\ images = <<renderableImage>>
    /\ heap[renderableImage].pixelsPerMetre = Q(20)

\* C6: a cancel leaves the composer's sequence, the image objects, the
\* selection and the stored state as they were
C6_CancelChangesNothing ==
    [][ (EditorShown /\ cancelAdd) =>
            UNCHANGED <<images, heap, selectedImage, localStorage>> ]_vars

\* C6's case: a calibration cancelled in the scale stage with a line drawn,
\* the scene still being the loaded plan A alone, stored as it was
C6_CancelledInScale ==
    /\ ~dialogOpen
    /\ state.stage = "scale"
    /\ state.end # None
    /\ Len(images) = 1
    /\ images[1] # renderableImage
    /\ localStorage = Some(<<SavedPlanA>>)

\* C7: the editor starts in the crop stage, only handleNext takes it from crop
\* to scale, and from scale no step takes it anywhere else
C7_StageOneWay ==
    [][ /\ state.stage = "unmounted" => state'.stage \in {"unmounted", "crop"}
        /\ state.stage = "crop" =>
               \/ state'.stage = "crop"
               \/ state'.stage = "scale" /\ handleNext
        /\ state.stage = "scale" => state'.stage = "scale" ]_vars

\* C7's case: in the scale stage, with a line drawn, a length entered and
\* Shift held: pointer, keyboard and input events were taken after the advance
C7_ScaleInUse ==
    /\ dialogOpen
    /\ state.stage = "scale"
    /\ state.end # None
    /\ state.length # None
    /\ shiftPressed

\* the crop rectangle of img lies in its source image and is not empty
CropWithinSource(img) ==
    /\ Le(Q(0), img.cropOffsetX)
    /\ Le(Add(img.cropOffsetX, img.cropWidth), Q(ImageSize[img.image].width))
    /\ Le(Q(0), img.cropOffsetY)
    /\ Le(Add(img.cropOffsetY, img.cropHeight), Q(ImageSize[img.image].height))
    /\ Lt(Q(0), img.cropWidth)
    /\ Lt(Q(0), img.cropHeight)

\* C8: the crop rectangle committed by handleNext, and that of every emitted
\* image, lies within the source image and has a positive width and height
C8_CommittedCropWithinSource ==
    /\ state.stage = "scale" => CropWithinSource(heap[renderableImage])
    /\ \A r \in Members : CropWithinSource(heap[r])

\* the point of the image under the canvas point p
ClickedPoint(p) ==
    Coordinate("image", Div(Q(p[1]), imageToCanvasScaleFactor),
                        Div(Q(p[2]), imageToCanvasScaleFactor))

\* C9: in the scale stage a click with no start sets start to the clicked
\* point; with start and no end it sets end and keeps start; with both it
\* clears end and sets start to the clicked point itself
C9_ClickCycle ==
    [][ \A p \in ClickPoints :
          (state.stage = "scale" /\ handleMouseClick(p[1], p[2])) =>
              IF state.start = None
              THEN state'.start = Some(ClickedPoint(p)) /\ state'.end = None
              ELSE IF state.end = None
              THEN state'.start = state.start /\ state'.end # None
              ELSE state'.start = Some(ClickedPoint(p)) /\ state'.end = None ]_vars

\* the endpoint for the cursor over the canvas point p, the line starting at
\* from: across if the cursor is further across than down, else down
SnappedEndpoint(from, p) ==
    LET c == ClickedPoint(p)
    IN  IF shiftPressed THEN c
        ELSE IF Lt(MathAbs(Sub(c.y, from.y)), MathAbs(Sub(c.x, from.x)))
        THEN Coordinate("image", c.x, from.y)
        ELSE Coordinate("image", from.x, c.y)

\* C10: with start set, the endpoint recorded for a cursor at (cx, cy) is
\* the cursor itself while Shift is held, and else (cx, start.y) if
\* |cx - start.x| > |cy - start.y| and (start.x, cy) if not, so that the line
\* is horizontal or vertical
C10_EndpointSnapped ==
    [][ \A p \in SnapPoints :
          ( /\ state.stage = "scale" /\ state.start # None /\ state.end = None
            /\ handleMouseClick(p[1], p[2]) ) =>
              /\ state'.end = Some(SnappedEndpoint(state.start[1], p))
              /\ shiftPressed \/ state'.end[1].x = state.start[1].x
                              \/ state'.end[1].y = state.start[1].y ]_vars

\* C10's case: without Shift, a click as far across as down from the start (a
\* tie) was recorded straight below the start
C10_TieSnappedVertical ==
    /\ state.stage = "scale"
    /\ state.start = Some(ClickedPoint(<<0, 0>>))
    /\ state.end = Some(ClickedPoint(<<0, 300>>))

\* C11: the pixelsPerMetre of an emitted image, times the length entered, is
\* the distance between start and end as the state holds them, in pixels of the
\* image: its square is dx^2 + dy^2, and for a line along an axis it is the
\* line's pixels divided by the length
C11_ScaleIsDistanceOverLength ==
    [][ Len(images') > Len(images) =>
          LET ppm == heap'[images'[1]].pixelsPerMetre
              len == state.length[1]
              dx  == Sub(state.end[1].x, state.start[1].x)
              dy  == Sub(state.end[1].y, state.start[1].y)
          IN  /\ Le(Q(0), ppm)
              /\ Mul(Mul(ppm, ppm), Mul(len, len)) = Add(Mul(dx, dx), Mul(dy, dy))
              /\ dy = Q(0) => ppm = Div(MathAbs(dx), len)
              /\ dx = Q(0) => ppm = Div(MathAbs(dy), len) ]_vars

\* C11's case: on "sheet", a line from (0, 0) to (300, 0) in pixels of the
\* image, measured as 3 metres, was saved with 100 pixels per metre
C11_ThreeHundredOverThree ==
    /\ Len(images) = 1
    /\ state.stage = "scale"
    /\ state.start = Some(Coordinate("image", Q(0), Q(0)))
    /\ state.end = Some(Coordinate("image", Q(300), Q(0)))
    /\ state.length = Some(Q(3))
    /\ heap[images[1]].pixelsPerMetre = Q(100)

\* the world point under the pointer at (clientX, clientY) = p
WorldPoint(p) ==
    [ x |-> Add(Div(Q(p[1] - boundingRect.left), canvasPixelsPerMeter),
                renderOrigin.x),
      y |-> Add(Div(Q(p[2] - boundingRect.top), canvasPixelsPerMeter),
                renderOrigin.y) ]

\* the indices of the images whose bounding box contains the world point w
Containing(w) ==
    {i \in 1..Len(images) :
        LET b == getImageBoundingBox(heap[images[i]])
        IN  /\ Le(b.xMin, w.x) /\ Le(w.x, b.xMax)
            /\ Le(b.yMin, w.y) /\ Le(w.y, b.yMax)}

\* C12: a primary-button press selects the image of the smallest index whose
\* bounding box contains the pointer's world position; if there is none it
\* clears the selection and leaves the sequence as it is
C12_FrontmostHit ==
    [][ \A p \in DragPoints :
          composerHandleMouseDown(p[1], p[2], 0) =>
              LET inside == Containing(WorldPoint(p))
              IN  IF inside = {}
                  THEN selectedImage' = None /\ images' = images
                  ELSE \E k \in inside :
                          /\ \A j \in inside : k <= j
                          /\ selectedImage' = Some(images[k]) ]_vars

\* C12's case: at the initial camera plan D lies in front of plan B, the
\* pointer at (100, 100) is over both, and the press there has taken plan D
C12_FrontOfTwoHit ==
    /\ Len(images) = 2
    /\ Containing(WorldPoint(<<100, 100>>)) = {1, 2}
    /\ SavedImage(heap[images[1]]) = SavedPlanD
    /\ selectedImage = Some(images[1])
    /\ imageDragState = Some([lastX |-> 100, lastY |-> 100, img |-> images[1]])

\* C19: the bounding box of an image of w x h metres at (x, y) is
\* [x, x + w] x [y, y + h] for 0 and 180 degrees; for 90 and 270 degrees it
\* has the centre (x + w/2, y + h/2) and is h wide and w high
C19_BoundingBox ==
    \A r \in DOMAIN heap :
        LET img == heap[r]
            w == Div(img.cropWidth, img.pixelsPerMetre)
            h == Div(img.cropHeight, img.pixelsPerMetre)
            b == getImageBoundingBox(img)
        IN  IF img.rotationDegrees \in {0, 180}
            THEN /\ b.xMin = img.x /\ b.xMax = Add(img.x, w)
                 /\ b.yMin = img.y /\ b.yMax = Add(img.y, h)
            ELSE /\ Add(b.xMin, b.xMax) = Add(Mul(Q(2), img.x), w)
                 /\ Add(b.yMin, b.yMax) = Add(Mul(Q(2), img.y), h)
                 /\ Sub(b.xMax, b.xMin) = h
                 /\ Sub(b.yMax, b.yMin) = w

\* C19's case: an image of 4 m x 2 m at (0, 0), turned by 90 degrees, has
\* the box xMin = 1, xMax = 3, yMin = -1, yMax = 3
C19_QuarterTurned ==
    \E r \in DOMAIN heap :
        /\ heap[r].x = Q(0) /\ heap[r].y = Q(0)
        /\ Div(heap[r].cropWidth, heap[r].pixelsPerMetre) = Q(4)
        /\ Div(heap[r].cropHeight, heap[r].pixelsPerMetre) = Q(2)
        /\ heap[r].rotationDegrees = 90
        /\ getImageBoundingBox(heap[r]) =
               [xMin |-> Q(1), xMax |-> Q(3), yMin |-> Q(0 - 1), yMax |-> Q(3)]

\* C20: while an image is dragged, a pointer move adds the pointer's delta in
\* device pixels, divided by the camera's pixels per metre, to the x and y of
\* the dragged image, whatever its rotation, and leaves its other fields, the
\* other images, the sequence, the selection and the camera as they were
C20_DragTranslates ==
    [][ \A p \in DragPoints :
          (imageDragState # None /\ composerHandleMouseMove(p[1], p[2])) =>
              LET d == imageDragState[1]
                  r == d.img
              IN  /\ heap'[r].x = Add(heap[r].x,
                                      Div(Q(p[1] - d.lastX), canvasPixelsPerMeter))
                  /\ heap'[r].y = Add(heap[r].y,
                                      Div(Q(p[2] - d.lastY), canvasPixelsPerMeter))
                  /\ [heap'[r] EXCEPT !.x = heap[r].x, !.y = heap[r].y] = heap[r]
                  /\ DOMAIN heap' = DOMAIN heap
                  /\ \A o \in DOMAIN heap \ {r} : heap'[o] = heap[o]
                  /\ UNCHANGED <<images, selectedImage, canvasPixelsPerMeter,
                                 renderOrigin>> ]_vars

\* C20's case: plan D, turned by 90 degrees and pressed at (100, 100), has
\* been dragged to (200, 150) at the initial zoom: it lies at (2, 1)
C20_TurnedImageDragged ==
    /\ imageDragState # None
    /\ imageDragState[1].lastX = 200 /\ imageDragState[1].lastY = 150
    /\ heap[imageDragState[1].img].rotationDegrees = 90
    /\ heap[imageDragState[1].img].x = Q(2)
    /\ heap[imageDragState[1].img].y = Q(1)
    /\ canvasPixelsPerMeter = Q(INITIAL_PIXELS_PER_METER)

\* the image objects the sequence imgs of references into h stands for
Records(imgs, h) == [i \in 1..Len(imgs) |-> h[imgs[i]]]

\* the image objects loadState makes of the stored value
Restored(stored) == [k \in 1..Len(stored) |-> LoadedImage(stored[k])]

C14_RoundTrip ==
    Restored(Serialize(images, heap)) = Records(images, heap)

\* the world point under the canvas point pos at the camera (zoom, origin)
WorldUnder(pos, zoom, origin) ==
    [ x |-> Add(Div(pos.x, zoom), origin.x),
      y |-> Add(Div(pos.y, zoom), origin.y) ]

\* C15: a wheel notch multiplies the camera's pixels per metre by 1.3 (away
\* from the user) or by 1/1.3 (towards the user), and while a pointer position
\* is known the world point under the pointer is the same before and after
C15_ZoomAnchored ==
    [][ \A deltaY \in WheelDeltas :
          handleMouseWheel(deltaY) =>
              /\ canvasPixelsPerMeter' =
                     Mul(canvasPixelsPerMeter,
                         IF deltaY < 0 THEN Mk(13, 10) ELSE Mk(10, 13))
              /\ mousePos' = mousePos
              /\ mousePos # None =>
                     WorldUnder(mousePos[1], canvasPixelsPerMeter', renderOrigin')
                         = WorldUnder(mousePos[1], canvasPixelsPerMeter, renderOrigin) ]_vars

\* C15's case: with the pointer at (250, 100) one notch has taken the zoom
\* from 50 to 65 and the origin from (0, 0) to (15/13, 6/13): the world point
\* (5, 2) is still under the pointer
C15_ZoomedAboutPointer ==
    /\ mousePos = Some([x |-> Q(250), y |-> Q(100)])
    /\ canvasPixelsPerMeter = Q(65)
    /\ renderOrigin = [x |-> Mk(15, 13), y |-> Mk(6, 13)]
    /\ WorldUnder(mousePos[1], canvasPixelsPerMeter, renderOrigin)
           = [x |-> Q(5), y |-> Q(2)]

\* C16: every image's rotationDegrees is 0, 90, 180 or 270; rotate left takes
\* 90 from the selected image's rotation and rotate right adds 90, modulo 360
\* (so right undoes left); neither changes another field of the image, another
\* image, the sequence or the selection; with nothing selected both do nothing
C16_QuarterTurns ==
    [][ /\ \A r \in DOMAIN heap' : heap'[r].rotationDegrees \in {0, 90, 180, 270}
        /\ (handleRotateLeft \/ handleRotateRight) =>
              /\ selectedImage # None
              /\ LET r == selectedImage[1]
                 IN  /\ handleRotateLeft =>
                            (heap'[r].rotationDegrees + 90) % 360
                                = heap[r].rotationDegrees
                     /\ handleRotateRight =>
                            heap'[r].rotationDegrees
                                = (heap[r].rotationDegrees + 90) % 360
                     /\ [heap'[r] EXCEPT !.rotationDegrees = heap[r].rotationDegrees]
                            = heap[r]
                     /\ DOMAIN heap' = DOMAIN heap
                     /\ \A o \in DOMAIN heap \ {r} : heap'[o] = heap[o]
              /\ UNCHANGED <<images, selectedImage, cameraVars>> ]_vars

\* C16's case: plan A is selected and turned to 270 degrees, where one
\* rotate left takes it from 0; plan B is not turned
C16_TurnedLeft ==
    /\ Len(images) = 2
    /\ selectedImage = Some(images[1])
    /\ heap[images[1]].rotationDegrees = 270
    /\ [heap[images[1]] EXCEPT !.rotationDegrees = 0] = LoadedImage(SavedPlanA)
    /\ heap[images[2]] = LoadedImage(SavedPlanB)

\* C17: a delete that changes anything removes the selected image, and
\* nothing else, from the sequence, the others keeping their order; with
\* nothing selected the sequence stays as it is
C17_DeleteRemovesSelected ==
    [][ handleDelete =>
            /\ selectedImage # None
            /\ selectedImage[1] \in Members
            /\ Len(images') = Len(images) - 1
            /\ images' = SelectSeq(images, LAMBDA r : r # selectedImage[1])
            /\ heap' = heap ]_vars

\* C17's case: of the added image, plan A and plan B, plan A was brought to
\* the front and deleted: the added image and plan B remain, in this order
C17_SelectedGone ==
    /\ Len(images) = 2
    /\ selectedImage # None
    /\ selectedImage[1] \notin Members
    /\ heap[selectedImage[1]] = LoadedImage(SavedPlanA)
    /\ heap[images[1]].pixelsPerMetre = CalibratedPlanC.pixelsPerMetre
    /\ heap[images[2]] = LoadedImage(SavedPlanB)

\* C18: a completed calibration puts the emitted image at the front of the
\* sequence: the sequence is one longer and the images that were in it follow
\* in their order
C18_AddedAtFront ==
    [][ (EditorShown /\ ~saveDisabled /\ handleSave) =>
            /\ renderableImage \notin Members
            /\ Len(images') = Len(images) + 1
            /\ images'[1] = renderableImage
            /\ \A i \in 1..Len(images) : images'[i + 1] = images[i] ]_vars

\* C18's case: with plan A loaded, a calibration has completed: its image is
\* in front of plan A
C18_AddedBeforeLoaded ==
    /\ ~dialogOpen
    /\ Len(images) = 2
    /\ images[1] = renderableImage
    /\ heap[images[2]] = LoadedImage(SavedPlanA)

\* the canvas point of the viewport point (clientX, clientY)
CanvasPoint(clientX, clientY) ==
    [x |-> Q(clientX - boundingRect.left), y |-> Q(clientY - boundingRect.top)]

\* what a pointer move to p does to a pan that began or continued at the
\* viewport point (lastX, lastY) of canvasDragState: the origin loses the
\* pointer's displacement in metres, the world point that was under the
\* pointer is under it still, and every image is where it was
PanStep(p) ==
    LET d == canvasDragState[1]
    IN  /\ renderOrigin' =
               [ x |-> Sub(renderOrigin.x,
                           Div(Q(p[1] - d.lastX), canvasPixelsPerMeter)),
                 y |-> Sub(renderOrigin.y,
                           Div(Q(p[2] - d.lastY), canvasPixelsPerMeter)) ]
        /\ WorldUnder(CanvasPoint(p[1], p[2]), canvasPixelsPerMeter', renderOrigin')
               = WorldUnder(CanvasPoint(d.lastX, d.lastY),
                            canvasPixelsPerMeter, renderOrigin)
        /\ heap' = heap

\* C21 as stated: while a pan session is open (canvasDragState is set) every
\* pointer move pans
C21_EveryMovePans ==
    [][ \A p \in DragPoints :
          (canvasDragState # None /\ composerHandleMouseMove(p[1], p[2]))
              => PanStep(p) ]_vars

\* C21: while a pan session is open and no image is being dragged, every
\* pointer move takes the pointer's displacement, in metres, from the camera
\* origin, so that the world point under the pointer stays under it, and
\* moves no image; while an image is being dragged the move drags the image
\* and leaves the camera where it is
C21_MovePansUnlessDragging ==
    [][ \A p \in DragPoints :
          (canvasDragState # None /\ composerHandleMouseMove(p[1], p[2])) =>
              IF imageDragState = None
              THEN PanStep(p)
              ELSE renderOrigin' = renderOrigin ]_vars

\* C21's case: at the initial camera a pan from (100, 100) to (200, 150) has
\* taken (2, 1) from the origin, the session is still open, and plan D is
\* where it was loaded
C21_Panned ==
    /\ canvasDragState = Some([lastX |-> 200, lastY |-> 150])
    /\ imageDragState = None
    /\ canvasPixelsPerMeter = Q(INITIAL_PIXELS_PER_METER)
    /\ renderOrigin = [x |-> Q(0 - 2), y |-> Q(0 - 1)]
    /\ Len(images) = 1
    /\ heap[images[1]] = LoadedImage(SavedPlanD)

\* the handles held in the crop state s, as a set
Held(s) == {s.currentCropHandles[i] : i \in 1..Len(s.currentCropHandles)}

\* the distance in canvas pixels from the canvas point loc to the edge that
\* the handle h moves
EdgeDistance(h, loc) ==
    LET f == imageToCanvasScaleFactor
    IN  IF h \in {"xMin", "xMax"}
        THEN MathAbs(Sub(loc.x, Mul(state[h], f)))
        ELSE MathAbs(Sub(loc.y, Mul(state[h], f)))

\* C22: in the crop stage at most two handles are held, each once, never
\* xMin with xMax nor yMin with yMax; a step that gives the held handles a
\* new non-empty value is a pointer-down with the pointer less than 10 canvas
\* pixels from the edge of each handle it takes; a pointer-up leaves none
\* held; and a pointer move changes no bound whose handle is not held, and
\* not the held handles
C22_HeldHandles ==
    [][ /\ state'.stage = "crop" =>
              /\ Len(state'.currentCropHandles) <= 2
              /\ Cardinality(Held(state')) = Len(state'.currentCropHandles)
              /\ Held(state') \subseteq {"xMin", "xMax", "yMin", "yMax"}
              /\ ~({"xMin", "xMax"} \subseteq Held(state'))
              /\ ~({"yMin", "yMax"} \subseteq Held(state'))
        /\ ( /\ state.stage = "crop"
             /\ state'.stage = "crop"
             /\ state'.currentCropHandles # << >>
             /\ state'.currentCropHandles # state.currentCropHandles ) =>
                 /\ editorHandleMouseDown
                 /\ mouseLocation # None
                 /\ \A h \in Held(state') :
                        Lt(EdgeDistance(h, mouseLocation[1]), Q(CROP_HANDLE_TOLERANCE))
        /\ (state.stage = "crop" /\ editorHandleMouseUp) =>
                 /\ state'.stage = "crop"
                 /\ state'.currentCropHandles = << >>
        /\ \A p \in EditorPoints :
              (state.stage = "crop" /\ editorHandleMouseMove(p[1], p[2])) =>
                 /\ state'.stage = "crop"
                 /\ state'.currentCropHandles = state.currentCropHandles
                 /\ \A h \in {"xMin", "xMax", "yMin", "yMax"} \ Held(state) :
                        state'[h] = state[h] ]_vars

\* C22's case: the bottom right corner of the initial crop rectangle of
\* "wide" was taken at (1080, 480) and moved to (600, 700): xMax and yMax are
\* held and have changed, xMin and yMin are the initial 20
C22_CornerDragged ==
    /\ state.stage = "crop"
    /\ state.currentCropHandles = <<"xMax", "yMax">>
    /\ mouseLocation = Some(Coordinate("canvas", Q(600), Q(700)))
    /\ state.xMax = Q(100)
    /\ state.yMax = Mk(350, 3)
    /\ state.xMin = Q(INITIAL_CROP_INSET)
    /\ state.yMin = Q(INITIAL_CROP_INSET)

\* C23: handleNext in the crop stage writes cropOffsetX = xMin, cropOffsetY =
\* yMin, cropWidth = xMax - xMin and cropHeight = yMax - yMin to the output
\* record, changes no other field of it and no other record, and leaves the
\* editor in the scale stage with no start, no end and no length; in the
\* scale stage it changes neither the records nor the state
C23_AdvanceCommitsCrop ==
    [][ handleNext =>
          IF state.stage = "crop"
          THEN LET old == heap[renderableImage]
                   new == heap'[renderableImage]
               IN  /\ new.cropOffsetX = state.xMin
                   /\ new.cropOffsetY = state.yMin
                   /\ new.cropWidth = Sub(state.xMax, state.xMin)
                   /\ new.cropHeight = Sub(state.yMax, state.yMin)
                   /\ [new EXCEPT !.cropOffsetX = old.cropOffsetX,
                                  !.cropOffsetY = old.cropOffsetY,
                                  !.cropWidth = old.cropWidth,
                                  !.cropHeight = old.cropHeight] = old
                   /\ DOMAIN heap' = DOMAIN heap
                   /\ \A r \in DOMAIN heap \ {renderableImage} : heap'[r] = heap[r]
                   /\ renderableImage' = renderableImage
                   /\ DOMAIN state' = {"stage", "start", "end", "length"}
                   /\ state'.stage = "scale"
                   /\ state'.start = None
                   /\ state'.end = None
                   /\ state'.length = None
          ELSE /\ heap' = heap
               /\ state' = state ]_vars

\* C23's case: the crop rectangle of "wide" whose bottom right corner was
\* moved to (100, 350/3) has been committed: the offset is (20, 20) and the
\* size 80 by 290/3, and the scale stage has nothing entered yet
C23_DraggedCropCommitted ==
    /\ dialogOpen
    /\ state = [stage |-> "scale", start |-> None, end |-> None, length |-> None]
    /\ heap[renderableImage].cropOffsetX = Q(INITIAL_CROP_INSET)
    /\ heap[renderableImage].cropOffsetY = Q(INITIAL_CROP_INSET)
    /\ heap[renderableImage].cropWidth = Q(80)
    /\ heap[renderableImage].cropHeight = Mk(290, 3)

\* C24: while the start-up load has not finished (loadFinished is false) no
\* step writes the store: the value under the save key stays what the load
\* read, and is not replaced by the serialization of a sequence that the
\* saved images have not been pushed to yet
C24_EarlySaveIgnored ==
    [][ ~loadFinished =>
            /\ localStorage' = localStorage
            /\ loading # None => localStorage' = Some(loading[1].state) ]_vars

=============================================================================
